---- MODULE Spec2Model ----
(***************************************************************************)
(* Model of src/portfolio_analysis.py: the risk metrics, the Markowitz     *)
(* optimizer with its closed-form fallback, the Monte Carlo simulator and  *)
(* the __main__ / print_report sequence.                                   *)
(*                                                                         *)
(* Arithmetic is exact: a real number is an integer numerator over a       *)
(* stated denominator, a vector of weights is [num |-> <<..>>, den |-> d]. *)
(* IEEE special values (nan, +inf, -inf) are modelled where the code can   *)
(* produce them; rounding in the last place is not.                        *)
(***************************************************************************)
EXTENDS Integers, Sequences, FiniteSets, TLC

VARIABLES
    pc,               \* position of the caller: which call has returned
    scipy_available,  \* whether "from scipy... import" succeeds
    cov_in,           \* returns_df.cov() of optimize_portfolio's argument
    w_clip,           \* optimize_portfolio's local w after np.clip (line 178)
    opt_weights,      \* value returned by optimize_portfolio
    slsqp,            \* scipy's OptimizeResult: [success, x]
    returns_df,       \* the return series, a sequence of rows
    weights,          \* the weights argument of the call under study
    rng,              \* np.random's global generator state
    out,              \* outcome of the last call
    frame,            \* print_report's local variables
    calls,            \* the calls __main__ and print_report have completed
    results           \* the record print_report returns

vars == << pc, scipy_available, cov_in, w_clip, opt_weights, slsqp,
           returns_df, weights, rng, out, frame, calls, results >>

None == [kind |-> "none"]

----------------------------------------------------------------------------
(* Module constants of the program                                         *)

AUM_MILLIONS == 500            \* AUM = 500_000_000, in millions
RISK_FREE_BP == 525            \* RISK_FREE = 0.0525, in 1e-4
TRADE_DAYS == 252
N_TICKERS == 10                \* len(TICKERS)
BOX_MIN_PCT == 2               \* 0.02 in percent
BOX_MAX_PCT == 25              \* 0.25 in percent

CURRENT_WEIGHTS ==
    [num |-> << 18, 15, 12, 10, 8, 12, 8, 7, 5, 5 >>, den |-> 100]

----------------------------------------------------------------------------
(* Integer and vector helpers                                              *)

Abs(x) == IF x < 0 THEN -x ELSE x

Sign(x) == IF x > 0 THEN 1 ELSE IF x < 0 THEN -1 ELSE 0

RECURSIVE Gcd(_, _)
Gcd(a, b) == IF b = 0 THEN Abs(a) ELSE Gcd(b, a % b)

Lcm(a, b) == (Abs(a) \div Gcd(a, b)) * Abs(b)

RECURSIVE SeqSum(_)
SeqSum(s) == IF s = << >> THEN 0 ELSE Head(s) + SeqSum(Tail(s))

RECURSIVE SeqGcd(_)
SeqGcd(s) == IF s = << >> THEN 0 ELSE Gcd(Head(s), SeqGcd(Tail(s)))

RECURSIVE SeqLcm(_)
SeqLcm(s) == IF s = << >> THEN 1 ELSE Lcm(Head(s), SeqLcm(Tail(s)))

Dot(a, b) == SeqSum([i \in 1..Len(a) |-> a[i] * b[i]])

\* the same rational vector with numerators and denominator in lowest terms
Reduce(v) ==
    LET g == Gcd(SeqGcd(v.num), v.den)
    IN  IF g = 0 THEN v
        ELSE [num |-> [i \in 1..Len(v.num) |-> v.num[i] \div g],
              den |-> v.den \div g]

----------------------------------------------------------------------------
(* optimize_portfolio                                                      *)

\* Bounds of the covariance inputs: two assets of a pair load s and t on a
\* common factor and carry idiosyncratic variance d.
MaxLoad == 3
MaxIdio == 1
\* Bound of the SLSQP iterates drawn: percent moved from one asset to the next
MaxShift == 2

\* np.ones(n) / n
w0 == [num |-> [i \in 1..N_TICKERS |-> 1], den |-> N_TICKERS]

\* A 2x2 block [[a, b], [b, c]] of returns_df.cov(), entries in units of
\* 1e-8 / TRADE_DAYS; the matrix is block diagonal with N_TICKERS / 2 blocks.
FactorBlock(s, t, d) == [a |-> s * s + d, b |-> s * t, c |-> t * t + d]

BlockSet ==
    { FactorBlock(s, t, d) : s \in 0..MaxLoad, t \in 0..MaxLoad, d \in 0..MaxIdio }

NumBlocks == N_TICKERS \div 2

CovInputs ==
    { [i \in 1..NumBlocks |-> IF i <= k THEN bx ELSE by] :
        bx \in BlockSet, by \in BlockSet, k \in 1..NumBlocks }

\* cov_mat + np.eye(n) * 1e-8 with cov_mat = cov * TRADE_DAYS: in the units
\* above 1e-8 is TRADE_DAYS.
Regularized(blk) ==
    [a |-> blk.a * TRADE_DAYS + TRADE_DAYS,
     b |-> blk.b * TRADE_DAYS,
     c |-> blk.c * TRADE_DAYS + TRADE_DAYS]

Det(blk) == blk.a * blk.c - blk.b * blk.b

\* np.linalg.inv of the block diagonal matrix, then inv_cov @ ones: the row
\* sums of each block's inverse adj/det, over the common denominator L, and
\* divided by ones @ inv_cov @ ones, the sum of those row sums.
RawWeights(cov) ==
    LET reg == [i \in 1..Len(cov) |-> Regularized(cov[i])]
        L == SeqLcm([i \in 1..Len(cov) |-> Det(reg[i])])
        rowsum(j) ==
            LET blk == reg[(j + 1) \div 2]
            IN  (IF j % 2 = 1 THEN blk.c - blk.b ELSE blk.a - blk.b)
                    * (L \div Det(blk))
        nums == [j \in 1..(2 * Len(cov)) |-> rowsum(j)]
    IN  Reduce([num |-> nums, den |-> SeqSum(nums)])

ClipUpperOnly(x, lo, hi) == IF x > hi THEN hi ELSE x

\* np.clip on one component
Clip(x, lo, hi) == IF x < lo THEN lo ELSE IF x > hi THEN hi ELSE x

\* np.clip(w, 0.02, 0.25): numerators over the denominator 100 * w.den
ClipVector(w) ==
    [num |-> [i \in 1..Len(w.num) |->
                 Clip(100 * w.num[i], BOX_MIN_PCT * w.den, BOX_MAX_PCT * w.den)],
     den |-> 100 * w.den]

\* w / w.sum(); a zero sum gives nan in every component
Renormalize(w) ==
    IF SeqSum(w.num) = 0 THEN [kind |-> "nan"]
    ELSE Reduce([num |-> w.num, den |-> SeqSum(w.num)])

\* result.x of a successful solve: SLSQP keeps the iterate inside the bounds
\* and on the budget constraint; the points drawn are the equal weights with
\* d percent moved from asset i to the next one.
SolverPoints ==
    { [num |-> [j \in 1..N_TICKERS |->
                   IF j = i THEN N_TICKERS - d
                   ELSE IF j = (i % N_TICKERS) + 1 THEN N_TICKERS + d
                   ELSE N_TICKERS],
       den |-> 100] : i \in 1..N_TICKERS, d \in 0..MaxShift }

SolverOutcomes ==
    { [success |-> s, x |-> x] : s \in BOOLEAN, x \in SolverPoints }

\* return result.x if result.success else w0
SolverReturn(res) == IF res.success THEN res.x ELSE w0

InitOpt ==
    /\ pc = "call"
    /\ scipy_available \in BOOLEAN
    /\ cov_in \in CovInputs
    /\ w_clip = None
    /\ opt_weights = None
    /\ slsqp = None
    /\ returns_df = << >>
    /\ weights = None
    /\ rng = 0
    /\ out = None
    /\ frame = None
    /\ calls = << >>
    /\ results = None

\* lines 150-169: scipy imports, minimize returns res
OptimizeSLSQP ==
    /\ pc = "call"
    /\ scipy_available
    /\ \E res \in SolverOutcomes :
          /\ slsqp' = res
          /\ opt_weights' = SolverReturn(res)
    /\ pc' = "returned"
    /\ UNCHANGED << scipy_available, cov_in, w_clip, returns_df, weights,
                    rng, out, frame, calls, results >>

\* lines 171-179: the import raises ImportError
OptimizeClosedForm ==
    /\ pc = "call"
    /\ ~scipy_available
    /\ w_clip' = ClipVector(RawWeights(cov_in))
    /\ opt_weights' = Renormalize(w_clip')
    /\ pc' = "returned"
    /\ UNCHANGED << scipy_available, cov_in, slsqp, returns_df, weights,
                    rng, out, frame, calls, results >>

NextOpt == OptimizeSLSQP \/ OptimizeClosedForm

SpecOpt == InitOpt /\ [][NextOpt]_vars

----------------------------------------------------------------------------
(* Return series and floating-point values shared by the risk metrics      *)

\* Entries of the series are k * RetStep units for k in a range up to MaxRet
RetStep == 10
\* A return entry r stands for r / RET_DEN: RetStep units are the daily
\* risk-free return RISK_FREE / TRADE_DAYS = 1/4800, and the benchmark noise
\* scale 0.003 is a whole number of units.
RET_DEN == ((TRADE_DAYS * 10000) \div RISK_FREE_BP) * RetStep
MaxRet == 2
NumPeriods == 3
ConfDen == 4

\* Two assets: the first moves freely, the second returns the same every period
Series(lo, hi) ==
    { [t \in 1..NumPeriods |-> << col[t] * RetStep, c * RetStep >>] :
        col \in [1..NumPeriods -> lo..hi], c \in lo..hi }

WeightChoices ==
    { [num |-> << 1, 0 >>, den |-> 1],
      [num |-> << 0, 1 >>, den |-> 1],
      [num |-> << 1, 1 >>, den |-> 2],
      [num |-> << 17, 17 >>, den |-> 40] }

\* returns_df @ weights: numerators over the denominator w.den * RET_DEN
PortReturns(w, df) == [t \in 1..Len(df) |-> Dot(df[t], w.num)]

\* T * sum(x^2) - sum(x)^2 = T * sum((x - mean)^2)
SumSqDev(xs) ==
    Len(xs) * SeqSum([t \in 1..Len(xs) |-> xs[t] * xs[t]]) - SeqSum(xs) * SeqSum(xs)

ReduceRat(n, d) ==
    LET g == Gcd(n, d)
    IN  IF g = 0 THEN [num |-> n, den |-> d]
        ELSE [num |-> (n \div g) * Sign(d), den |-> Abs(d) \div g]

RatSub(a, b) ==
    LET L == Lcm(a.den, b.den)
    IN  ReduceRat(a.num * (L \div a.den) - b.num * (L \div b.den), L)

\* Series.std() with ddof = 1, times sqrt(scale): times * sqrt(rad) / over,
\* the radicand kept exact and the entries' common factor taken out of it
StdTimesSqrt(xs, scale, over) ==
    LET g == IF SeqGcd(xs) = 0 THEN 1 ELSE SeqGcd(xs)
        ys == [t \in 1..Len(xs) |-> xs[t] \div g]
    IN  [rad   |-> ReduceRat(scale * SumSqDev(ys), Len(xs) * Len(xs) * (Len(xs) - 1)),
         times |-> g,
         over  |-> over]

IsZeroStd(sd) == sd.rad.num = 0

NaN == [kind |-> "nan"]
PosInf == [kind |-> "inf", sign |-> 1]
NegInf == [kind |-> "inf", sign |-> -1]

DivideZeroIsNaN(x, sd) ==
    IF IsZeroStd(sd) THEN NaN
    ELSE [kind |-> "finite", num |-> x, over |-> sd]

\* numpy float64 division x / sd: a zero divisor gives nan for 0 / 0 and a
\* signed infinity otherwise (the RuntimeWarning is filtered, line 33)
Divide(x, sd) ==
    IF IsZeroStd(sd)
    THEN IF x.num = 0 THEN NaN ELSE IF x.num > 0 THEN PosInf ELSE NegInf
    ELSE [kind |-> "finite", num |-> x, over |-> sd]

----------------------------------------------------------------------------
(* portfolio_metrics                                                       *)

AnnualizedReturn(w, df) ==
    LET p == PortReturns(w, df)
    IN  ReduceRat(SeqSum(p) * TRADE_DAYS, Len(p) * w.den * RET_DEN)

AnnualizedVol(w, df) ==
    StdTimesSqrt(PortReturns(w, df), TRADE_DAYS, w.den * RET_DEN)

portfolio_metrics(w, df) ==
    LET ann_return == AnnualizedReturn(w, df)
        ann_vol == AnnualizedVol(w, df)
        excess == RatSub(ann_return, ReduceRat(RISK_FREE_BP, 10000))
    IN  [op |-> "portfolio_metrics", raised |-> "no",
         ann_return |-> ann_return, ann_vol |-> ann_vol,
         sharpe |-> Divide(excess, ann_vol)]

InitMetrics ==
    /\ pc = "call"
    /\ returns_df \in Series(-1, MaxRet)
    /\ weights \in WeightChoices
    /\ scipy_available \in BOOLEAN
    /\ cov_in = << >>
    /\ w_clip = None
    /\ opt_weights = None
    /\ slsqp = None
    /\ rng = 0
    /\ out = None
    /\ frame = None
    /\ calls = << >>
    /\ results = None

CallPortfolioMetrics ==
    /\ pc = "call"
    /\ out' = portfolio_metrics(weights, returns_df)
    /\ pc' = "returned"
    /\ UNCHANGED << scipy_available, cov_in, w_clip, opt_weights, slsqp,
                    returns_df, weights, rng, frame, calls, results >>

NextMetrics == CallPortfolioMetrics

SpecMetrics == InitMetrics /\ [][NextMetrics]_vars

----------------------------------------------------------------------------
(* calculate_var                                                           *)

\* port_returns * AUM: numerators in millions over w.den * RET_DEN
PortDollar(w, df) ==
    LET p == PortReturns(w, df)
    IN  [t \in 1..Len(p) |-> p[t] * AUM_MILLIONS]

\* the k-th smallest entry of xs, k in 1..Len(xs)
OrderStat(xs, k) ==
    LET vals == { xs[i] : i \in 1..Len(xs) }
    IN  CHOOSE v \in vals :
            /\ Cardinality({ i \in 1..Len(xs) : xs[i] < v }) < k
            /\ Cardinality({ i \in 1..Len(xs) : xs[i] <= v }) >= k

\* np.percentile(xs, q * 100) for the fraction q = q.num / q.den: ValueError
\* outside [0, 100], else linear interpolation between the order statistics
\* around the virtual index q * (n - 1)
Percentile(xs, q) ==
    IF q.num < 0 \/ q.num > q.den
    THEN [kind |-> "ValueError"]
    ELSE LET n == Len(xs)
             pos == q.num * (n - 1)
             lo == pos \div q.den
             fr == pos % q.den
             hi == IF lo + 1 <= n - 1 THEN lo + 1 ELSE lo
             xlo == OrderStat(xs, lo + 1)
             xhi == OrderStat(xs, hi + 1)
         IN  [kind |-> "finite", num |-> xlo * q.den + fr * (xhi - xlo),
              den |-> q.den]

\* (1 - confidence) as a fraction
TailFraction(confidence) ==
    [num |-> confidence.den - confidence.num, den |-> confidence.den]

\* scipy.stats.norm.ppf(q): -inf at 0, +inf at 1, a finite quantile between
NormPpf(q) ==
    IF q.num = 0 THEN NegInf
    ELSE IF q.num = q.den THEN PosInf
    ELSE [kind |-> "finite", quantile_of |-> q]

\* -(mu + z * sig): inf * 0 is nan, a finite mu does not change an infinity
ParametricVaR(mu, z, sig) ==
    IF z.kind = "inf"
    THEN IF IsZeroStd(sig) THEN NaN
         ELSE [kind |-> "inf", sign |-> -z.sign]
    ELSE [kind |-> "finite", mu |-> mu, z |-> z, sig |-> sig]

TailStrictlyBelow(xs, threshold) ==
    { t \in 1..Len(xs) : xs[t] * threshold.den < threshold.num }

\* the index set of port_dollar[port_dollar <= threshold]
TailAtOrBelow(xs, threshold) ==
    { t \in 1..Len(xs) : xs[t] * threshold.den <= threshold.num }

RECURSIVE SumOver(_, _)
SumOver(xs, idx) ==
    IF idx = {} THEN 0
    ELSE LET t == CHOOSE i \in idx : TRUE
         IN  xs[t] + SumOver(xs, idx \ {t})

\* -xs[tail].mean(); the mean of an empty selection is nan
NegMean(xs, idx) ==
    IF idx = {} THEN NaN
    ELSE [kind |-> "finite", num |-> -SumOver(xs, idx), den |-> Cardinality(idx)]

Negate(x) ==
    IF x.kind = "finite" THEN [x EXCEPT !.num = -x.num] ELSE x

calculate_var(w, df, confidence, scipy) ==
    LET port_dollar == PortDollar(w, df)
        q == TailFraction(confidence)
        threshold == Percentile(port_dollar, q)
    IN  IF threshold.kind = "ValueError"
        THEN [op |-> "calculate_var", raised |-> "ValueError",
              confidence |-> confidence]
        ELSE IF ~scipy
        THEN [op |-> "calculate_var", raised |-> "ImportError",
              confidence |-> confidence]
        ELSE [op |-> "calculate_var", raised |-> "no",
              confidence |-> confidence,
              var_hist |-> Negate(threshold),
              var_param |->
                  ParametricVaR(ReduceRat(SeqSum(port_dollar), Len(port_dollar)),
                                NormPpf(q),
                                StdTimesSqrt(port_dollar, 1, w.den * RET_DEN)),
              cvar |-> NegMean(port_dollar, TailAtOrBelow(port_dollar, threshold))]

\* the confidence levels tried: -1/ConfDen .. 1 + 1/ConfDen
Confidences == { [num |-> c, den |-> ConfDen] : c \in (-1)..(ConfDen + 1) }

CallCalculateVar ==
    /\ pc = "call"
    /\ \E confidence \in Confidences :
          out' = calculate_var(weights, returns_df, confidence, scipy_available)
    /\ pc' = "returned"
    /\ UNCHANGED << scipy_available, cov_in, w_clip, opt_weights, slsqp,
                    returns_df, weights, rng, frame, calls, results >>

NextVar == CallCalculateVar

SpecVar == InitMetrics /\ [][NextVar]_vars

----------------------------------------------------------------------------
(* np.random: the process-wide generator                                   *)

\* The generator is a deterministic function of its state; the Mersenne
\* Twister is stood for by a full-period congruential generator.
RngMod == 16

NextState(s) == (5 * s + 3) % RngMod

\* the standard normal value a state yields, in whole standard deviations
StdNormal(s) == ((s \div 4) % 3) - 1

RECURSIVE Advance(_, _)
Advance(s, n) == IF n <= 0 THEN s ELSE Advance(NextState(s), n - 1)

\* np.random.normal(..., n) from state s: the n values drawn
Draws(s, n) == [i \in 1..n |-> StdNormal(Advance(s, i))]

----------------------------------------------------------------------------
(* calculate_beta                                                          *)

NOISE_UNITS == (3 * RET_DEN) \div 1000     \* 0.003 in units
BM_NUM == 17                   \* 0.85 = 17 / 20
BM_DEN == 20

RowSum(row) == SeqSum(row)

\* returns_df.mean(axis=1) * 0.85 + np.random.normal(0, 0.003, len):
\* numerators over the denominator BM_DEN * ncols * RET_DEN
Benchmark(df, s) ==
    LET z == Draws(s, Len(df))
    IN  [t \in 1..Len(df) |->
            BM_NUM * RowSum(df[t]) + BM_DEN * Len(df[t]) * NOISE_UNITS * z[t]]

\* n * sum(x y) - sum(x) sum(y) = n * sum((x - mean x)(y - mean y))
SumCoDev(xs, ys) ==
    Len(xs) * SeqSum([t \in 1..Len(xs) |-> xs[t] * ys[t]]) - SeqSum(xs) * SeqSum(ys)

\* an entry of np.cov(xs, ys): sum of co-deviations over (n - ddof)
Covariance(xs, ys, ddof) ==
    ReduceRat(SumCoDev(xs, ys), Len(xs) * (Len(xs) - ddof))

\* a / b for rationals as float64: a zero divisor gives nan or an infinity
RatDivide(a, b) ==
    IF b.num = 0
    THEN IF a.num = 0 THEN NaN ELSE IF a.num > 0 THEN PosInf ELSE NegInf
    ELSE LET g1 == Gcd(a.num, b.num)
             g2 == Gcd(a.den, b.den)
             r == ReduceRat((a.num \div g1) * (b.den \div g2),
                            (a.den \div g2) * (b.num \div g1))
         IN  [kind |-> "finite", num |-> r.num, den |-> r.den]

BetaPopulationVariance(p, b) ==
    RatDivide(Covariance(p, b, 1), Covariance(b, b, 0))

\* cov_mat[0, 1] / cov_mat[1, 1] with np.cov's ddof = 1
BetaRatio(p, b) ==
    RatDivide(Covariance(p, b, 1), Covariance(b, b, 1))

\* the ratio in the arguments' units times (BM_DEN * ncols) / w.den
Rescale(x, up, down) ==
    IF x.kind # "finite" THEN x
    ELSE LET g1 == Gcd(x.num, down)
             g2 == Gcd(x.den, up)
             r == ReduceRat((x.num \div g1) * (up \div g2),
                            (x.den \div g2) * (down \div g1))
         IN  [kind |-> "finite", num |-> r.num, den |-> r.den]

calculate_beta(w, df, s) ==
    LET bm_returns == Benchmark(df, s)
        port_returns == PortReturns(w, df)
        g == IF SeqGcd(bm_returns) = 0 THEN 1 ELSE SeqGcd(bm_returns)
        bm == [t \in 1..Len(df) |-> bm_returns[t] \div g]
    IN  [op |-> "calculate_beta", raised |-> "no",
         bm_returns |-> bm_returns,
         beta |-> Rescale(BetaRatio(port_returns, bm),
                          BM_DEN * Len(df[1]), w.den * g)]

----------------------------------------------------------------------------
(* monte_carlo                                                             *)

MaxSim == 2
MaxHorizon == 1

\* sig * np.sqrt(horizon): np.sqrt of a negative number is nan
ScaleKind(horizon) == IF horizon < 0 THEN "nan" ELSE "finite"

\* AUM * np.exp(np.random.normal(loc, scale, n_sim)): one terminal value per
\* value drawn, nan when the scale is nan
Simulated(s, n_sim, horizon) ==
    LET z == Draws(s, n_sim)
    IN  [i \in 1..n_sim |->
            IF ScaleKind(horizon) = "nan" THEN NaN
            ELSE [kind |-> "finite", z |-> z[i]]]

\* The outcomes of one call, each with the generator state it leaves.
\* A negative n_sim is refused by np.random.normal before it draws; a nan
\* scale is refused ("scale < 0") by the numpy versions that test its sign
\* bit and drawn with by the others.
monte_carlo(w, df, n_sim, horizon, s) ==
    LET mu == ReduceRat(SeqSum(PortReturns(w, df)), Len(df))
        sig == StdTimesSqrt(PortReturns(w, df), 1, w.den * RET_DEN)
        head == [op |-> "monte_carlo", n_sim |-> n_sim, horizon |-> horizon,
                 mu |-> mu, sig |-> sig]
        error == [out |-> [op |-> "monte_carlo", raised |-> "ValueError",
                           n_sim |-> n_sim, horizon |-> horizon],
                  rng |-> s]
        drawn == [out |-> [op |-> "monte_carlo", raised |-> "no",
                           n_sim |-> n_sim, horizon |-> horizon,
                           mu |-> mu, sig |-> sig,
                           simulated |-> Simulated(s, n_sim, horizon)],
                  rng |-> Advance(s, n_sim)]
    IN  IF n_sim < 0 THEN { error }
        ELSE IF ScaleKind(horizon) = "nan" THEN { error, drawn }
        ELSE { drawn }

----------------------------------------------------------------------------
(* Calls of the four operations on one return series, in any order         *)

InitRandom ==
    /\ pc = "call"
    /\ returns_df \in Series(0, 1)
    /\ weights \in WeightChoices
    /\ scipy_available = TRUE
    /\ rng \in 0..(RngMod - 1)
    /\ cov_in = << >>
    /\ w_clip = None
    /\ opt_weights = None
    /\ slsqp = None
    /\ out = None
    /\ frame = None
    /\ calls = << >>
    /\ results = None

CallCalculateBeta ==
    /\ pc = "call"
    /\ out' = calculate_beta(weights, returns_df, rng)
    /\ rng' = Advance(rng, Len(returns_df))
    /\ pc' = "returned"
    /\ UNCHANGED << scipy_available, cov_in, w_clip, opt_weights, slsqp,
                    returns_df, weights, frame, calls, results >>

CallMonteCarlo ==
    /\ pc = "call"
    /\ \E n_sim \in (-1)..MaxSim, horizon \in (-1)..MaxHorizon :
          \E res \in monte_carlo(weights, returns_df, n_sim, horizon, rng) :
              /\ out' = res.out
              /\ rng' = res.rng
    /\ pc' = "returned"
    /\ UNCHANGED << scipy_available, cov_in, w_clip, opt_weights, slsqp,
                    returns_df, weights, frame, calls, results >>

\* the caller goes on to its next call
CallAgain ==
    /\ pc = "returned"
    /\ pc' = "call"
    /\ UNCHANGED << scipy_available, cov_in, w_clip, opt_weights, slsqp,
                    returns_df, weights, rng, out, frame, calls, results >>

NextRandom ==
    \/ CallPortfolioMetrics
    \/ CallCalculateVar
    \/ CallCalculateBeta
    \/ CallMonteCarlo
    \/ CallAgain

SpecRandom == InitRandom /\ [][NextRandom]_vars

----------------------------------------------------------------------------
(* __main__ and print_report                                               *)

SEED == 42
DEFAULT_CONFIDENCE == [num |-> 99, den |-> 100]
DEFAULT_HORIZON == 252
\* The trials monte_carlo draws by default (10000 in the program)
SimsDrawn == 3

\* The statements of __main__ (lines 275-277) and of print_report (lines
\* 209-268) that call the core, in program order.
SpecifiedProgram ==
    << "generate_price_data",
       "portfolio_metrics(current)", "calculate_var(current)",
       "calculate_beta(current)",
       "optimize_portfolio",
       "portfolio_metrics(optimal)", "calculate_var(optimal)",
       "calculate_beta(optimal)",
       "monte_carlo(optimal)", "return" >>

MainProgram ==
    << "generate_price_data", "optimize_portfolio",
       "portfolio_metrics(current)", "calculate_var(current)",
       "calculate_beta(current)",
       "portfolio_metrics(optimal)", "calculate_var(optimal)",
       "calculate_beta(optimal)",
       "monte_carlo(optimal)", "return" >>

\* the statement the program is at; pc counts the statements completed
At(stmt) == pc \in 0..(Len(MainProgram) - 1) /\ MainProgram[pc + 1] = stmt

\* Ten assets: all follow a market return a[t], the first five add c
MainSeries ==
    { [t \in 1..NumPeriods |->
          [i \in 1..N_TICKERS |->
              RetStep * (a[t] + IF 2 * i <= N_TICKERS THEN c ELSE 0)]] :
        a \in [1..NumPeriods -> 0..1], c \in 0..1 }

\* returns_df.cov() of the data drawn: covariances whose blocks are all alike
UniformCovInputs == { [i \in 1..NumBlocks |-> b] : b \in BlockSet }

\* np.percentile(sims, q): the terminal values are ordered as their draws
\* are; the value interpolates between the terminal values of lo and hi
PercentileOfSims(sims, q) ==
    LET zs == [i \in 1..Len(sims) |-> sims[i].z]
        pos == q.num * (Len(zs) - 1)
        lo == pos \div q.den
        hi == IF lo + 1 <= Len(zs) - 1 THEN lo + 1 ELSE lo
    IN  [lo |-> OrderStat(zs, lo + 1), hi |-> OrderStat(zs, hi + 1),
         fr |-> ReduceRat(pos % q.den, q.den)]

\* the dictionary of lines 261-268
ResultRecord(f, w) ==
    [current |-> [return |-> f.cr, vol |-> f.cv, sharpe |-> f.cs,
                  var |-> f.vH, cvar |-> f.cvar, beta |-> f.beta_curr],
     optimal |-> [return |-> f.or_, vol |-> f.ov, sharpe |-> f.os_,
                  var |-> f.vH2, cvar |-> f.cvar2, beta |-> f.beta_opt],
     opt_weights |-> w,
     mc |-> [p5 |-> f.p5, p50 |-> f.p50, p95 |-> f.p95]]

InitMain ==
    /\ pc = 0
    /\ scipy_available \in BOOLEAN
    /\ rng = SEED % RngMod
    /\ returns_df = << >>
    /\ cov_in = << >>
    /\ weights = None
    /\ w_clip = None
    /\ opt_weights = None
    /\ slsqp = None
    /\ out = None
    /\ frame = << >>
    /\ calls = << >>
    /\ results = None

Completed(stmt) ==
    /\ pc' = pc + 1
    /\ calls' = Append(calls, stmt)

\* line 275: the data is drawn from the seeded generator
GeneratePriceData ==
    /\ At("generate_price_data")
    /\ returns_df' \in MainSeries
    /\ rng' = Advance(rng, NumPeriods * N_TICKERS)
    /\ Completed("generate_price_data")
    /\ UNCHANGED << scipy_available, cov_in, w_clip, opt_weights, slsqp,
                    weights, out, frame, results >>

\* line 276
MainOptimize ==
    /\ At("optimize_portfolio")
    /\ IF scipy_available
       THEN \E res \in SolverOutcomes :
               /\ slsqp' = res
               /\ opt_weights' = SolverReturn(res)
               /\ UNCHANGED << cov_in, w_clip >>
       ELSE /\ cov_in' \in UniformCovInputs
            /\ w_clip' = ClipVector(RawWeights(cov_in'))
            /\ opt_weights' = Renormalize(w_clip')
            /\ slsqp' = slsqp
    /\ Completed("optimize_portfolio")
    /\ UNCHANGED << scipy_available, returns_df, weights, rng, out,
                    frame, results >>

WhichWeights(which) == IF which = "current" THEN CURRENT_WEIGHTS ELSE opt_weights

\* lines 209 and 223
ReportMetrics(which, stmt) ==
    /\ At(stmt)
    /\ LET m == portfolio_metrics(WhichWeights(which), returns_df)
       IN  /\ out' = m
           /\ frame' = IF which = "current"
                       THEN frame @@ [cr |-> m.ann_return, cv |-> m.ann_vol,
                                      cs |-> m.sharpe]
                       ELSE frame @@ [or_ |-> m.ann_return, ov |-> m.ann_vol,
                                      os_ |-> m.sharpe]
    /\ Completed(stmt)
    /\ UNCHANGED << scipy_available, cov_in, w_clip, opt_weights, slsqp,
                    returns_df, weights, rng, results >>

\* lines 210 and 224: an exception raised in the call ends the program
ReportVar(which, stmt) ==
    /\ At(stmt)
    /\ LET v == calculate_var(WhichWeights(which), returns_df,
                              DEFAULT_CONFIDENCE, scipy_available)
       IN  /\ out' = v
           /\ IF v.raised # "no"
              THEN /\ pc' = -1
                   /\ UNCHANGED << frame, calls >>
              ELSE /\ frame' = IF which = "current"
                               THEN frame @@ [vH |-> v.var_hist, vP |-> v.var_param,
                                              cvar |-> v.cvar]
                               ELSE frame @@ [vH2 |-> v.var_hist, vP2 |-> v.var_param,
                                              cvar2 |-> v.cvar]
                   /\ Completed(stmt)
    /\ UNCHANGED << scipy_available, cov_in, w_clip, opt_weights, slsqp,
                    returns_df, weights, rng, results >>

\* lines 211 and 225
ReportBeta(which, stmt) ==
    /\ At(stmt)
    /\ LET b == calculate_beta(WhichWeights(which), returns_df, rng)
       IN  /\ out' = b
           /\ frame' = IF which = "current"
                       THEN frame @@ [beta_curr |-> b.beta]
                       ELSE frame @@ [beta_opt |-> b.beta]
    /\ rng' = Advance(rng, Len(returns_df))
    /\ Completed(stmt)
    /\ UNCHANGED << scipy_available, cov_in, w_clip, opt_weights, slsqp,
                    returns_df, weights, results >>

\* lines 246-247
ReportMonteCarlo ==
    /\ At("monte_carlo(optimal)")
    /\ \E res \in monte_carlo(opt_weights, returns_df, SimsDrawn,
                              DEFAULT_HORIZON, rng) :
          /\ out' = res.out
          /\ rng' = res.rng
          /\ frame' = frame @@
                [p5  |-> PercentileOfSims(res.out.simulated, [num |-> 5, den |-> 100]),
                 p50 |-> PercentileOfSims(res.out.simulated, [num |-> 50, den |-> 100]),
                 p95 |-> PercentileOfSims(res.out.simulated, [num |-> 95, den |-> 100])]
    /\ Completed("monte_carlo(optimal)")
    /\ UNCHANGED << scipy_available, cov_in, w_clip, opt_weights, slsqp,
                    returns_df, weights, results >>

\* lines 261-268 and 277
ReportReturn ==
    /\ At("return")
    /\ results' = ResultRecord(frame, opt_weights)
    /\ Completed("return")
    /\ UNCHANGED << scipy_available, cov_in, w_clip, opt_weights, slsqp,
                    returns_df, weights, rng, out, frame >>

NextMain ==
    \/ GeneratePriceData
    \/ MainOptimize
    \/ ReportMetrics("current", "portfolio_metrics(current)")
    \/ ReportVar("current", "calculate_var(current)")
    \/ ReportBeta("current", "calculate_beta(current)")
    \/ ReportMetrics("optimal", "portfolio_metrics(optimal)")
    \/ ReportVar("optimal", "calculate_var(optimal)")
    \/ ReportBeta("optimal", "calculate_beta(optimal)")
    \/ ReportMonteCarlo
    \/ ReportReturn

SpecMain == InitMain /\ [][NextMain]_vars

----------------------------------------------------------------------------
(* Claims about optimize_portfolio                                         *)

IsVector(w) == "num" \in DOMAIN w

\* every component within [0.02, 0.25]
InBox(w) ==
    \A i \in 1..Len(w.num) :
        /\ BOX_MIN_PCT * w.den <= 100 * w.num[i]
        /\ 100 * w.num[i] <= BOX_MAX_PCT * w.den

\* |sum(w) - 1| <= 1e-6
SumsToOne(w) == Abs(SeqSum(w.num) - w.den) <= w.den \div 1000000

\* C1: whichever exit optimize_portfolio takes, the returned weights sum to 1
\* within 1e-6 and every component lies in [0.02, 0.25].
C1_Feasible ==
    pc = "returned" =>
        /\ IsVector(opt_weights)
        /\ SumsToOne(opt_weights)
        /\ InBox(opt_weights)

----------------------------------------------------------------------------
(* Claims about portfolio_metrics                                          *)

\* the portfolio's period returns are all equal: zero standard deviation
ConstantPortfolio ==
    \A t \in 1..Len(returns_df) :
        Dot(returns_df[t], weights.num) = Dot(returns_df[1], weights.num)

\* sign of annualized return minus RISK_FREE, from the inputs: the period
\* return r / (w.den * RET_DEN) against RISK_FREE / TRADE_DAYS
ExcessSign ==
    Sign(Dot(returns_df[1], weights.num) * 10000 * TRADE_DAYS
            - RISK_FREE_BP * weights.den * RET_DEN)

----------------------------------------------------------------------------
(* Claims about calculate_var                                              *)

InOpenUnit(c) == 0 < c.num /\ c.num < c.den

\* a <= b for rationals with positive denominators
RatLeq(a, b) == a.num * b.den <= b.num * a.den

\* C2: for a confidence in (0,1) calculate_var returns CVaR >= historical
\* VaR, and historical VaR >= 0 when the (1 - confidence) percentile of the
\* dollar returns is a loss; CVaR is the negated mean of exactly the samples
\* at or below the threshold whose negation is the historical VaR, and that
\* set of samples is never empty.
C2_CVaRAtLeastVaR ==
    (pc = "returned" /\ out.op = "calculate_var" /\ out.raised = "no"
        /\ InOpenUnit(out.confidence)) =>
        LET xs == PortDollar(weights, returns_df)
            below == { t \in 1..Len(xs) :
                          xs[t] * out.var_hist.den <= -out.var_hist.num }
        IN  /\ out.var_hist.kind = "finite"
            /\ below # {}
            /\ out.cvar.kind = "finite"
            /\ out.cvar.den = Cardinality(below)
            /\ out.cvar.num = -SumOver(xs, below)
            /\ RatLeq(out.var_hist, out.cvar)
            /\ (Percentile(xs, TailFraction(out.confidence)).num <= 0)
                  => out.var_hist.num >= 0

\* a valid call whose tail holds more than one sample and whose CVaR is
\* strictly above a positive historical VaR
C2_Witness ==
    /\ pc = "returned"
    /\ out.op = "calculate_var"
    /\ out.raised = "no"
    /\ InOpenUnit(out.confidence)
    /\ out.cvar.kind = "finite"
    /\ out.cvar.den > 1
    /\ out.var_hist.num > 0
    /\ ~RatLeq(out.cvar, out.var_hist)

\* C5: a confidence outside the open interval (0,1), the endpoints included,
\* ends calculate_var in an error and no VaR or CVaR figure is returned.
C5_RejectsOutOfRange ==
    (pc = "returned" /\ out.op = "calculate_var" /\ scipy_available
        /\ ~InOpenUnit(out.confidence)) =>
        out.raised # "no"

----------------------------------------------------------------------------
(* Claims about calculate_beta, monte_carlo and the shared generator       *)

RiskOps == { "portfolio_metrics", "calculate_var", "calculate_beta" }

\* C7: a risk-metrics call leaves the weights, the return series and the
\* process-wide state, the generator's included, as they were.
C7_RiskOpsChangeNothing ==
    [][(pc = "call" /\ pc' = "returned" /\ out'.op \in RiskOps) =>
          /\ rng' = rng
          /\ returns_df' = returns_df
          /\ weights' = weights]_vars

\* the portfolio's return equals the benchmark's in every period
PortfolioIsBenchmark ==
    LET p == PortReturns(weights, returns_df)
    IN  \A t \in 1..Len(returns_df) :
            p[t] * BM_DEN * Len(returns_df[t]) = out.bm_returns[t] * weights.den

BenchmarkVaries ==
    \E t \in 1..Len(returns_df) : out.bm_returns[t] # out.bm_returns[1]

\* C8: when the weights make the portfolio's return series equal to the
\* benchmark's and the benchmark's variance is not zero, calculate_beta
\* returns 1.
C8_BetaOfBenchmarkIsOne ==
    (pc = "returned" /\ out.op = "calculate_beta"
        /\ PortfolioIsBenchmark /\ BenchmarkVaries) =>
        /\ out.beta.kind = "finite"
        /\ out.beta.num = out.beta.den

C8_Witness ==
    /\ pc = "returned"
    /\ out.op = "calculate_beta"
    /\ PortfolioIsBenchmark
    /\ BenchmarkVaries
    /\ out.beta = [kind |-> "finite", num |-> 1, den |-> 1]

\* C9: monte_carlo with n_sim <= 0 or horizon <= 0 ends in an error and
\* returns no sample array; a valid call returns exactly n_sim values.
C9_RejectsNonPositive ==
    (pc = "returned" /\ out.op = "monte_carlo") =>
        IF out.n_sim <= 0 \/ out.horizon <= 0
        THEN out.raised # "no"
        ELSE out.raised = "no" /\ Len(out.simulated) = out.n_sim

----------------------------------------------------------------------------
(* Claims about the analysis run                                           *)

IsPrefix(a, b) == Len(a) <= Len(b) /\ \A i \in 1..Len(a) : a[i] = b[i]

Done == pc = Len(MainProgram)

C4_ConvergedFlagReported ==
    (Done /\ slsqp # None) =>
        /\ "converged" \in DOMAIN results
        /\ results.converged = slsqp.success

====
